---- MODULE Spec2Model ----
(***************************************************************************)
(* A model of obs_stuff/takemycutplease.py.                                *)
(*                                                                         *)
(*   Spec      the ObsClient: concurrent callers of request() and close()  *)
(*             on one client, the asyncio lock, the websocket connections  *)
(*             and a server that may emit any frame in any order.          *)
(*   SpecSaga  takemycutplease(): the saga, one remote request per step,   *)
(*             each accepted or failed by the remote.                      *)
(*   SpecHold  hold_until_clip_done_or_fallback() on its own parameters.   *)
(***************************************************************************)
EXTENDS Integers, Sequences, FiniteSets, TLC

(* ------------------------------------------------------------------ *)
(* Bounds                                                             *)
(* ------------------------------------------------------------------ *)
MaxCalls == 3
MaxInbox == 1

\* Every call of request() or close() is a coroutine of its own, a caller;
\* callers are numbered in the order they start.
Callers == 1..MaxCalls
NoCaller == 0
NoConn == 0

\* The req_id argument of each caller's request(): the default "1" or a
\* prefix of the caller's own.
PrefixOf(c) == IF c % 2 = 1 THEN "1" ELSE IF c % 4 = 2 THEN "a" ELSE "req"
Results == {"true", "false"}

VARIABLES
    \* ---- ObsClient ----
    ws,          \* self.ws: the stored connection, NoConn for None
    req_seq,     \* self._req_seq
    lockHolder,  \* owner of self._req_lock, NoCaller when unlocked
    lockWaiters, \* FIFO of callers suspended in _req_lock.acquire()
    conns,       \* every websocket opened so far
    pc,          \* position of each caller
    op,          \* what each caller is calling: "request", "close" or "none"
    rid,         \* local rid of each caller
    cws,         \* local ws of connect()
    lastDone,    \* the call that ended last: who, how, its request id and the
                 \* op and requestId of the frame it ended on
    inflight,    \* request ids sent whose call has not ended yet
    issued,      \* every request id generated so far
    ncalls       \* calls started so far

VARIABLES
    \* ---- takemycutplease() and hold_until_clip_done_or_fallback() ----
    args,        \* the arguments of takemycutplease()
    remote,      \* the state of the remote mixer
    remote0,     \* the state of the remote mixer before the run
    spc,         \* position of takemycutplease(): the req_id it is about to use
    sg,          \* the locals of takemycutplease()
    hd,          \* the arguments, locals and clock of the hold
    log,         \* every request issued, in order (status polls aside)
    polls        \* the outcomes of the status polls of the hold so far

clientVars == <<ws, req_seq, lockHolder, lockWaiters, conns, pc, op,
                rid, cws, lastDone, inflight, issued, ncalls>>

sagaVars == <<args, remote, remote0, spc, sg, hd, log, polls>>

VARIABLES
    \* ---- request(), lines 109-115, on its own ----
    matched      \* a matched response and what request() makes of it

vars == <<clientVars, sagaVars, matched>>

(* ------------------------------------------------------------------ *)
(* Frames                                                             *)
(* ------------------------------------------------------------------ *)
Frame(o, r, res) == [op |-> o, requestId |-> r, result |-> res]
NoFrame == Frame(-1, "", "")

\* A frame json.loads() raises on, or one that is not a JSON object
Malformed == Frame(-2, "", "")

\* Frames a server can put on the wire: hello, identified, a
\* request-response carrying any request id the client has generated, or a
\* malformed one.
ServerFrames ==
    {Frame(0, "", ""), Frame(2, "", ""), Malformed}
    \cup {Frame(7, r, res) : r \in issued, res \in Results}

\* A websocket as connect() gets it: open, nothing received, and hs counting
\* the handshake steps done on it (1 hello taken, 2 identify sent, 3 op=2 seen).
NewConn == [st |-> "open", inbox |-> <<>>, hs |-> 0]

IsClosed(k) == conns[k].st = "closed"

(* ------------------------------------------------------------------ *)
(* ObsClient                                                          *)
(* ------------------------------------------------------------------ *)
InitClient ==
    /\ ws = NoConn
    /\ req_seq = 0
    /\ lockHolder = NoCaller
    /\ lockWaiters = <<>>
    /\ conns = <<>>
    /\ pc = [c \in Callers |-> "idle"]
    /\ op = [c \in Callers |-> "none"]
    /\ rid = [c \in Callers |-> ""]
    /\ cws = NoConn
    /\ lastDone = [caller |-> NoCaller, how |-> "none", rid |-> "",
                   onOp |-> -1, onId |-> ""]
    /\ inflight = {}
    /\ issued = {}
    /\ ncalls = 0

\* asyncio.Lock.acquire() takes the lock at once only when it is unlocked and
\* nobody is queued; otherwise the caller queues (FIFO).
LockFreeBroken == TRUE
LockFree == lockHolder = NoCaller /\ lockWaiters = <<>>

\* ensure_connected(): `if self.ws is None or self.ws.closed`
NeedsConnectNoneOnly == ws = NoConn
NeedsConnect == ws = NoConn \/ IsClosed(ws)

\* Where a caller stands once it holds the lock: close() at its body,
\* request() in connect() or, when ensure_connected() has nothing to do, at
\* its send.
Entry(o) == IF o = "close" THEN "closing"
            ELSE IF NeedsConnect THEN "open" ELSE "send"

\* `async with self._req_lock` of request() and close()
Call(c, o) ==
    /\ pc[c] = "idle"
    /\ c = ncalls + 1
    /\ ncalls' = ncalls + 1
    /\ op' = [op EXCEPT ![c] = o]
    /\ IF LockFree
         THEN /\ lockHolder' = c
              /\ pc' = [pc EXCEPT ![c] = Entry(o)]
              /\ UNCHANGED lockWaiters
         ELSE /\ lockWaiters' = Append(lockWaiters, c)
              /\ pc' = [pc EXCEPT ![c] = "wait"]
              /\ UNCHANGED lockHolder
    /\ UNCHANGED <<ws, req_seq, conns, rid, cws, lastDone, inflight, issued>>
    /\ UNCHANGED <<sagaVars, matched>>

\* A connection no variable refers to any more: what is queued on it is
\* never received.
Drop(cs, k) == IF k = NoConn THEN cs ELSE [cs EXCEPT ![k].inbox = <<>>]

\* Leaving the `async with` block, by return or by exception, the call's
\* request id being r and self.ws left as w: the lock goes to the first
\* waiter, who resumes inside the block.
Leave(c, how, r, on, w) ==
    /\ lastDone' = [caller |-> c, how |-> how, rid |-> r,
                    onOp |-> on.op, onId |-> on.requestId]
    /\ rid' = [rid EXCEPT ![c] = ""]
    /\ op' = [op EXCEPT ![c] = "none"]
    /\ inflight' = inflight \ {r}
    /\ cws' = NoConn
    /\ IF lockWaiters = <<>>
         THEN /\ lockHolder' = IF lockHolder = c THEN NoCaller ELSE lockHolder
              /\ pc' = [pc EXCEPT ![c] = "done"]
              /\ UNCHANGED lockWaiters
         ELSE /\ lockHolder' = Head(lockWaiters)
              /\ lockWaiters' = Tail(lockWaiters)
              /\ pc' = [pc EXCEPT
                          ![c] = "done",
                          ![Head(lockWaiters)] =
                              IF op[Head(lockWaiters)] = "close" THEN "closing"
                              ELSE IF w = NoConn \/ IsClosed(w) THEN "open"
                              ELSE "send"]

\* Staying inside the block
Stay == UNCHANGED <<lastDone, rid, op, inflight, lockHolder, lockWaiters>>

\* connect(): websockets.connect() opens a socket or raises
OpenSocket(c) ==
    /\ pc[c] = "open"
    /\ \/ /\ conns' = Append(conns, NewConn)
          /\ cws' = Len(conns) + 1
          /\ pc' = [pc EXCEPT ![c] = "hello"]
          /\ Stay
       \/ /\ Leave(c, "conn_error", "", NoFrame, ws)
          /\ UNCHANGED conns
    /\ UNCHANGED <<ws, req_seq, issued, ncalls>>
    /\ UNCHANGED <<sagaVars, matched>>

\* ws.recv(): the head of the inbox; on a closed connection with nothing
\* queued it raises ConnectionClosed.
CanRecv(k) == conns[k].inbox # <<>>
RecvRaises(k) == conns[k].inbox = <<>> /\ IsClosed(k)

\* connect(): hello = json.loads(await ws.recv()); whatever comes first is
\* taken as the hello.
RecvHello(c) ==
    /\ pc[c] = "hello"
    /\ \/ /\ CanRecv(cws)
          /\ Head(conns[cws].inbox) # Malformed
          /\ conns' = [conns EXCEPT ![cws].inbox = Tail(@), ![cws].hs = 1]
          /\ pc' = [pc EXCEPT ![c] = "identify"]
          /\ Stay
          /\ UNCHANGED cws
       \/ /\ CanRecv(cws)
          /\ Head(conns[cws].inbox) = Malformed
          /\ Leave(c, "decode_error", "", NoFrame, ws)
          /\ conns' = Drop(conns, cws)
       \/ /\ RecvRaises(cws)
          /\ Leave(c, "conn_error", "", NoFrame, ws)
          /\ UNCHANGED conns
    /\ UNCHANGED <<ws, req_seq, issued, ncalls>>
    /\ UNCHANGED <<sagaVars, matched>>

\* connect(): await ws.send(json.dumps(identify))
SendIdentify(c) ==
    /\ pc[c] = "identify"
    /\ IF IsClosed(cws)
         THEN /\ Leave(c, "conn_error", "", NoFrame, ws)
              /\ conns' = Drop(conns, cws)
         ELSE /\ conns' = [conns EXCEPT ![cws].hs = 2]
              /\ pc' = [pc EXCEPT ![c] = "ack"]
              /\ Stay
              /\ UNCHANGED cws
    /\ UNCHANGED <<ws, req_seq, issued, ncalls>>
    /\ UNCHANGED <<sagaVars, matched>>

\* connect(): `if msg.get("op") == 2: break`
IsAnyFrame(f) == TRUE
IsIdentified(f) == f.op = 2

\* connect(): the loop waiting for op=2, then self.ws = ws
RecvIdentified(c) ==
    /\ pc[c] = "ack"
    /\ \/ /\ CanRecv(cws)
          /\ Head(conns[cws].inbox) = Malformed
          /\ Leave(c, "decode_error", "", NoFrame, ws)
          /\ conns' = Drop(conns, cws)
          /\ UNCHANGED ws
       \/ /\ CanRecv(cws)
          /\ Head(conns[cws].inbox) # Malformed
          /\ IF IsIdentified(Head(conns[cws].inbox))
               THEN /\ conns' = [Drop(conns, ws) EXCEPT ![cws].inbox = Tail(@),
                                                        ![cws].hs = 3]
                    /\ ws' = cws
                    /\ cws' = NoConn
                    /\ pc' = [pc EXCEPT ![c] = "send"]
                    /\ Stay
               ELSE /\ conns' = [conns EXCEPT ![cws].inbox = Tail(@)]
                    /\ Stay
                    /\ UNCHANGED <<ws, pc, cws>>
       \/ /\ RecvRaises(cws)
          /\ Leave(c, "conn_error", "", NoFrame, ws)
          /\ UNCHANGED <<conns, ws>>
    /\ UNCHANGED <<req_seq, issued, ncalls>>
    /\ UNCHANGED <<sagaVars, matched>>

\* _mk_request_id()
MkRequestIdNoSeq(p, seq) == IF p # "" /\ p # "1" THEN p ELSE "req"
MkRequestId(p, seq) ==
    (IF p # "" /\ p # "1" THEN p ELSE "req") \o "-" \o ToString(seq)

\* request(): rid = self._mk_request_id(req_id); await self.ws.send(payload)
SendRequest(c) ==
    /\ pc[c] = "send"
    /\ req_seq' = req_seq + 1
    /\ issued' = issued \cup {MkRequestId(PrefixOf(c), req_seq + 1)}
    /\ IF IsClosed(ws)
         THEN Leave(c, "conn_error", MkRequestId(PrefixOf(c), req_seq + 1), NoFrame, ws)
         ELSE /\ rid' = [rid EXCEPT ![c] = MkRequestId(PrefixOf(c), req_seq + 1)]
              /\ inflight' = inflight \cup {MkRequestId(PrefixOf(c), req_seq + 1)}
              /\ pc' = [pc EXCEPT ![c] = "recv"]
              /\ UNCHANGED <<lockHolder, lockWaiters, lastDone, cws, op>>
    /\ UNCHANGED <<ws, conns, ncalls>>
    /\ UNCHANGED <<sagaVars, matched>>

\* request(): the receive loop's two filters, `msg.get("op") != 7` and
\* `d.get("requestId") != rid`
MatchesAnyId(f, r) == f.op = 7
Matches(f, r) == f.op = 7 /\ f.requestId = r

\* request(): one turn of `while True: msg = json.loads(await self.ws.recv())`
RecvResponse(c) ==
    /\ pc[c] = "recv"
    /\ \/ /\ CanRecv(ws)
          /\ Head(conns[ws].inbox) = Malformed
          /\ conns' = [conns EXCEPT ![ws].inbox = Tail(@)]
          /\ Leave(c, "decode_error", rid[c], NoFrame, ws)
       \/ /\ CanRecv(ws)
          /\ Head(conns[ws].inbox) # Malformed
          /\ conns' = [conns EXCEPT ![ws].inbox = Tail(@)]
          /\ IF Matches(Head(conns[ws].inbox), rid[c])
               THEN Leave(c, IF Head(conns[ws].inbox).result = "true"
                               THEN "returned" ELSE "request_error",
                          rid[c], Head(conns[ws].inbox), ws)
               ELSE /\ Stay
                    /\ UNCHANGED <<pc, cws>>
       \/ /\ RecvRaises(ws)
          /\ Leave(c, "conn_error", rid[c], NoFrame, ws)
          /\ UNCHANGED conns
    /\ UNCHANGED <<ws, req_seq, issued, ncalls>>
    /\ UNCHANGED <<sagaVars, matched>>

\* close(): self.ws = None
SessionKept == ws
SessionAfterClose == NoConn

\* close(): it ends having closed the connection ("closed"), having dropped
\* one already closed ("cleared") or having found none ("noop")
Close(c) ==
    /\ pc[c] = "closing"
    /\ IF ws # NoConn /\ ~IsClosed(ws)
         THEN conns' = [conns EXCEPT ![ws].st = "closed", ![ws].inbox = <<>>]
         ELSE conns' = Drop(conns, ws)
    /\ ws' = SessionAfterClose
    /\ Leave(c, IF ws = NoConn THEN "noop"
                ELSE IF IsClosed(ws) THEN "cleared" ELSE "closed",
             "", NoFrame, NoConn)
    /\ UNCHANGED <<req_seq, issued, ncalls>>
    /\ UNCHANGED <<sagaVars, matched>>

\* The server puts a frame on an open connection the client holds.
ServerEmit(k, f) ==
    /\ k \in {ws, cws} \ {NoConn}
    /\ conns[k].st = "open"
    /\ Len(conns[k].inbox) < MaxInbox
    /\ conns' = [conns EXCEPT ![k].inbox = Append(@, f)]
    /\ UNCHANGED <<ws, req_seq, lockHolder, lockWaiters, pc, op, rid,
                   cws, lastDone, inflight, issued, ncalls>>
    /\ UNCHANGED <<sagaVars, matched>>

\* The server (or the network) closes a connection.
ServerClose(k) ==
    /\ k \in 1..Len(conns)
    /\ conns[k].st = "open"
    /\ conns' = [conns EXCEPT ![k].st = "closed"]
    /\ UNCHANGED <<ws, req_seq, lockHolder, lockWaiters, pc, op, rid,
                   cws, lastDone, inflight, issued, ncalls>>
    /\ UNCHANGED <<sagaVars, matched>>

(* ------------------------------------------------------------------ *)
(* request(): the status of the matched response, lines 109-115       *)
(* ------------------------------------------------------------------ *)

\* A JSON value as json.loads() gives it: absent from its object, null, a
\* boolean, an integer or a string.
J(k, b, n, str) == [k |-> k, b |-> b, n |-> n, s |-> str]
JAbsent == J("absent", FALSE, 0, "")
JNull == J("null", FALSE, 0, "")
JBool(b) == J("bool", b, 0, "")
JInt(n) == J("int", FALSE, n, "")
JStr(str) == J("str", FALSE, 0, str)

\* dict.get(key, default)
Get(j, default) == IF j.k = "absent" THEN default ELSE j

\* What an f-string makes of a value
FStr(j) ==
    CASE j.k = "null" -> "None"
      [] j.k = "bool" -> (IF j.b THEN "True" ELSE "False")
      [] j.k = "int" -> ToString(j.n)
      [] j.k = "str" -> j.s
      [] OTHER -> ""

\* `status.get("result") is not True`
IsTruthy(j) ==
    \/ j.k = "bool" /\ j.b
    \/ j.k = "int" /\ j.n # 0
    \/ j.k = "str" /\ j.s # ""
IsTrue(j) == j.k = "bool" /\ j.b

RequestTypes == {"GetCurrentProgramScene", "SetCurrentProgramScene"}
StatusResults == {JAbsent, JNull, JBool(TRUE), JBool(FALSE), JInt(1),
                  JStr("true")}
StatusCodes == {JAbsent, JInt(100), JInt(600)}
StatusComments == {JAbsent, JStr(""), JStr("No source")}

NoBody == [result |-> JAbsent, code |-> JAbsent, comment |-> JAbsent]
NoMatched == [pc |-> "off", request_type |-> "", d |-> NoBody,
              how |-> "none", body |-> NoBody, error |-> <<>>]

\* The matched op=7 frames request() may be handed
InitMatched ==
    matched \in {[NoMatched EXCEPT !.pc = "matched", !.request_type = t,
                                   !.d = [result |-> r, code |-> c,
                                          comment |-> m]]
                 : t \in RequestTypes, r \in StatusResults,
                   c \in StatusCodes, m \in StatusComments}

\* The text of the RuntimeError of line 113, in its parts
ErrorText(request_type, code, comment) ==
    <<"OBS request ", request_type, " failed (code=", FStr(code),
      ", comment=", FStr(comment), ")">>

\* lines 109-115: raise on a result that is not True, return d otherwise
Status ==
    /\ matched.pc = "matched"
    /\ matched' =
         IF ~IsTrue(Get(matched.d.result, JNull))
           THEN [matched EXCEPT
                   !.pc = "done", !.how = "raised",
                   !.error = ErrorText(matched.request_type,
                                       Get(matched.d.code, JNull),
                                       Get(matched.d.comment, JStr("")))]
           ELSE [matched EXCEPT !.pc = "done", !.how = "returned",
                                !.body = matched.d]
    /\ UNCHANGED <<clientVars, sagaVars>>

(* ------------------------------------------------------------------ *)
(* The remote mixer, as takemycutplease() sees it                     *)
(* ------------------------------------------------------------------ *)
\* Python's None, where a string and where an int is expected
NoneStr == "None"
NoneInt == -1

\* Times are in milliseconds.
PadMs == 150
PollMs == 50
EndTimeoutMs == 15000

\* How long a request may take
Latencies == {0, 50}

itstinks_scene == "itstinks"
clip_input == "it_stinks_clip"
prevscene_scene_source_name == "PreviousScene"
previousscene_clone_input == "PrevSceneClone"
WrapperScene == "PreviousScene"

Scenes == {"Main", WrapperScene, itstinks_scene}
ItemId == [clip |-> 1, prev |-> 2]
NoOverride == <<NoneStr, NoneInt>>
CloneValues == {"Main", WrapperScene}
HideDelays == {100, 200}
FallbackMsValues == {0}

\* One request: its req_id, its requestType and what its requestData carries
R(req, type, a, b, n) ==
    [req |-> req, type |-> type, a |-> a, b |-> b, n |-> n, ok |-> TRUE]

\* obs.request() as the saga sees it: the request is issued, and the remote
\* accepts it (ok) or the call raises.
Sent(r, ok) ==
    /\ log' = Append(log, [r EXCEPT !.ok = ok])
    /\ UNCHANGED polls

BoolStr(b) == IF b THEN "true" ELSE "false"

\* set_scene_item_enabled()
SetSceneItemEnabledReq(req, item, enabled) ==
    R(req, "SetSceneItemEnabled", itstinks_scene, BoolStr(enabled), item)

\* set_scene_transition_override()
SetOverrideReq(req, scene, ov) ==
    R(req, "SetSceneSceneTransitionOverride", scene, ov[1], ov[2])

\* get_scene_transition_override(): name_out, dur_out
OvOut(ov) == <<IF ov[1] # NoneStr /\ ov[1] # "" THEN ov[1] ELSE NoneStr, ov[2]>>

SetProgramSceneReq(req, scene) ==
    R(req, "SetCurrentProgramScene", scene, "", NoneInt)

(* ------------------------------------------------------------------ *)
(* hold_until_clip_done_or_fallback()                                 *)
(* ------------------------------------------------------------------ *)
active_states ==
    {"OBS_WEBSOCKET_MEDIA_INPUT_STATE_OPENING",
     "OBS_WEBSOCKET_MEDIA_INPUT_STATE_BUFFERING",
     "OBS_WEBSOCKET_MEDIA_INPUT_STATE_PLAYING",
     "OBS_MEDIA_STATE_OPENING",
     "OBS_MEDIA_STATE_BUFFERING",
     "OBS_MEDIA_STATE_PLAYING"}

\* What GetMediaInputStatus may answer: (mediaState, mediaCursor,
\* mediaDuration); get_media_status() raising is the answer "failed".
MediaStates == {NoneStr, "OBS_WEBSOCKET_MEDIA_INPUT_STATE_PLAYING",
                "OBS_MEDIA_STATE_PLAYING",
                "OBS_WEBSOCKET_MEDIA_INPUT_STATE_ENDED"}
MediaCursors == {NoneInt, 950}
MediaDurations == {NoneInt, 0, 1000}
MediaAnswers ==
    [ok : {TRUE}, state : MediaStates, cursor : MediaCursors,
     dur : MediaDurations]
    \cup {[ok |-> FALSE, state |-> NoneStr, cursor |-> NoneInt, dur |-> NoneInt]}

HoldOff ==
    [pc |-> "off", hide_delay_s |-> 0, fallback_duration_ms |-> 0,
     end_timeout_s |-> 0, elapsed |-> 0, hidden |-> FALSE,
     seen_active |-> FALSE, ended_by_obs |-> FALSE,
     hides |-> 0, hideAt |-> NoneInt, retAt |-> NoneInt]

\* The hold at its first `while True`, t0 just read
HoldStart(hide, fallback, timeout) ==
    [HoldOff EXCEPT !.pc = "top", !.hide_delay_s = hide,
                    !.fallback_duration_ms = fallback,
                    !.end_timeout_s = timeout]

Max(a, b) == IF a >= b THEN a ELSE b

\* fallback_s = (fallback_duration_ms / 1000.0) + pad_s
fallback_s == hd.fallback_duration_ms + PadMs
\* max_s = max(fallback_s, end_timeout_s)
max_s == Max(fallback_s, hd.end_timeout_s)

\* `if (not hidden) and (elapsed >= hide_delay_s)`
HideDue == ~hd.hidden /\ hd.elapsed >= hd.hide_delay_s

\* hidden = True, after the try
HiddenOnlyOnSuccess(ok) == ok
HiddenAfterHide(ok) == TRUE

\* the hide request of a tick
HoldHide ==
    /\ hd.pc = "top"
    /\ HideDue
    /\ \E ok \in BOOLEAN :
        /\ Sent(SetSceneItemEnabledReq("hidePrev", ItemId.prev, FALSE), ok)
        /\ remote' = IF ok THEN [remote EXCEPT !.enabled[ItemId.prev] = FALSE]
                           ELSE remote
        /\ hd' = [hd EXCEPT !.pc = "poll", !.hidden = HiddenAfterHide(ok),
                            !.hides = @ + 1, !.hideAt = hd.elapsed]
    /\ UNCHANGED <<args, remote0, spc, sg>>
    /\ UNCHANGED <<clientVars, matched>>

\* `if seen_active and (state is not None) and (state not in active_states)`
\* and `if dur is not None and dur > 0 and cursor is not None and
\* cursor >= (dur - 50)`
EndedByObs(seen, m) ==
    \/ seen /\ m.state # NoneStr /\ m.state \notin active_states
    \/ m.dur # NoneInt /\ m.dur > 0 /\ m.cursor # NoneInt
       /\ m.cursor >= m.dur - 50

\* the three `return`s of the loop
HoldReturnsOnSignal(ended) ==
    \/ ended
    \/ hd.elapsed >= fallback_s
    \/ hd.elapsed >= max_s
HoldReturns(ended) ==
    \/ ended /\ hd.elapsed >= fallback_s
    \/ hd.elapsed >= fallback_s
    \/ hd.elapsed >= max_s

\* lines 273-277: `except Exception` around get_media_status()
QueryRaisesOnFailure(ok) == ~ok
QueryRaises(ok) == FALSE

\* the rest of a tick: the status query, the exit tests, the sleep; lat is
\* the time the requests of the tick took
HoldPoll ==
    /\ hd.pc = "poll" \/ (hd.pc = "top" /\ ~HideDue)
    /\ \E m \in MediaAnswers, lat \in Latencies :
        LET seen == hd.seen_active \/ m.state \in active_states
            ended == EndedByObs(seen, m)
        IN  /\ polls' = polls \cup {m.ok}
            /\ IF QueryRaises(m.ok)
                 THEN hd' = [hd EXCEPT !.pc = "raised"]
                 ELSE IF HoldReturns(ended)
                 THEN hd' = [hd EXCEPT !.pc = "returned",
                                       !.seen_active = seen,
                                       !.ended_by_obs = ended,
                                       !.retAt = hd.elapsed]
                 ELSE hd' = [hd EXCEPT !.pc = "top",
                                       !.seen_active = seen,
                                       !.ended_by_obs = ended,
                                       !.elapsed = @ + lat + PollMs]
    /\ UNCHANGED <<args, remote, remote0, spc, sg, log>>
    /\ UNCHANGED <<clientVars, matched>>

(* ------------------------------------------------------------------ *)
(* takemycutplease()                                                  *)
(* ------------------------------------------------------------------ *)
SagaLocals ==
    [return_scene |-> NoneStr, clone_target |-> NoneStr,
     saved_from_ov |-> NoOverride, saved_itstinks_ov |-> NoOverride,
     overrides_disabled |-> FALSE,
     saved_name |-> NoneStr, saved_dur_ms |-> NoneInt,
     saved_trans |-> <<NoneStr, NoneInt>>,
     clip_scene_item_id |-> NoneInt, prev_scene_item_id |-> NoneInt,
     cur_name |-> NoneStr, raised |-> FALSE, result |-> "none"]

\* The mixer before the run: some scene on program, a transition override
\* on every scene, the clone input pointing somewhere, the background item
\* shown and the clip item not.
RemoteStates ==
    {[scene |-> sc,
      ov |-> [s \in Scenes |-> IF s = itstinks_scene THEN <<"Stinger", 500>>
                               ELSE <<"Fade", 300>>],
      trans |-> <<"Fade", 300>>,
      clone |-> cl,
      enabled |-> [i \in {ItemId.clip, ItemId.prev} |-> i = ItemId.prev]]
     : sc \in Scenes, cl \in CloneValues}

InitSaga ==
    /\ args \in [force_cut : BOOLEAN, hide_delay_s : HideDelays,
                 fallback_duration_ms : FallbackMsValues]
    /\ remote \in RemoteStates
    /\ remote0 = remote
    /\ spc = "getProgramScene"
    /\ sg = SagaLocals
    /\ hd = HoldOff
    /\ log = <<>>
    /\ polls = {}

\* Frame of a saga step
SagaStep == UNCHANGED <<args, remote0, hd>> /\ UNCHANGED <<clientVars, matched>>

\* Where the saga goes once the override block (lines 342-353) is over
AfterOverrides == IF args.force_cut THEN "getTrans" ELSE "setCloneTarget"

\* An exception inside the `try` of lines 362-430: on to the `finally`
RaiseSwallowed == /\ sg' = sg
                  /\ spc' = "getProgramSceneFinally"
Raise == /\ sg' = [sg EXCEPT !.raised = TRUE]
         /\ spc' = "getProgramSceneFinally"

\* resp = await obs.request("GetCurrentProgramScene", ...) and the guard
GuardNever(scene) == FALSE
GuardRefuses(scene) == scene = itstinks_scene

GetProgramScene ==
    /\ spc = "getProgramScene"
    /\ \E ok \in BOOLEAN :
        /\ Sent(R("getProgramScene", "GetCurrentProgramScene", "", "", NoneInt), ok)
        /\ IF ~ok
             THEN /\ sg' = [sg EXCEPT !.raised = TRUE, !.result = "raised"]
                  /\ spc' = "done"
             ELSE IF GuardRefuses(remote.scene)
             THEN /\ sg' = [sg EXCEPT !.return_scene = remote.scene,
                                      !.result = "returned"]
                  /\ spc' = "done"
             ELSE /\ sg' = [sg EXCEPT !.return_scene = remote.scene,
                                      !.clone_target = remote.scene]
                  /\ spc' = IF remote.scene = WrapperScene
                              THEN "getCloneSettings" ELSE "getOvFrom"
    /\ UNCHANGED remote
    /\ SagaStep

\* the wrapper's clone target, lines 327-336
ResolvedClone(c) == c # NoneStr /\ c # "" /\ c # WrapperScene

GetCloneSettings ==
    /\ spc = "getCloneSettings"
    /\ \E ok \in BOOLEAN :
        /\ Sent(R("getCloneSettings", "GetInputSettings",
                  previousscene_clone_input, "", NoneInt), ok)
        /\ sg' = IF ok /\ ResolvedClone(remote.clone)
                   THEN [sg EXCEPT !.clone_target = remote.clone]
                   ELSE sg
    /\ spc' = "getOvFrom"
    /\ UNCHANGED remote
    /\ SagaStep

\* lines 351-353: a snapshot that raises skips the clears
AfterSnapshotFailureClears == "clrOvFrom"
AfterSnapshotFailure == AfterOverrides

\* lines 343-344: the two snapshots
GetOvFrom ==
    /\ spc = "getOvFrom"
    /\ \E ok \in BOOLEAN :
        /\ Sent(R("getOvFrom", "GetSceneSceneTransitionOverride",
                  sg.return_scene, "", NoneInt), ok)
        /\ IF ok
             THEN /\ sg' = [sg EXCEPT
                              !.saved_from_ov = OvOut(remote.ov[sg.return_scene])]
                  /\ spc' = "getOvItstinks"
             ELSE /\ sg' = [sg EXCEPT !.overrides_disabled = FALSE]
                  /\ spc' = AfterSnapshotFailure
    /\ UNCHANGED remote
    /\ SagaStep

GetOvItstinks ==
    /\ spc = "getOvItstinks"
    /\ \E ok \in BOOLEAN :
        /\ Sent(R("getOvItstinks", "GetSceneSceneTransitionOverride",
                  itstinks_scene, "", NoneInt), ok)
        /\ IF ok
             THEN /\ sg' = [sg EXCEPT
                              !.saved_itstinks_ov = OvOut(remote.ov[itstinks_scene])]
                  /\ spc' = "clrOvFrom"
             ELSE /\ sg' = [sg EXCEPT !.overrides_disabled = FALSE]
                  /\ spc' = AfterSnapshotFailure
    /\ UNCHANGED remote
    /\ SagaStep

\* lines 346-349: the two clears, then overrides_disabled = True
ClrOvFrom ==
    /\ spc = "clrOvFrom"
    /\ \E ok \in BOOLEAN :
        /\ Sent(SetOverrideReq("clrOvFrom", sg.return_scene, NoOverride), ok)
        /\ IF ok
             THEN /\ remote' = [remote EXCEPT !.ov[sg.return_scene] = NoOverride]
                  /\ spc' = "clrOvItstinks"
                  /\ UNCHANGED sg
             ELSE /\ sg' = [sg EXCEPT !.overrides_disabled = FALSE]
                  /\ spc' = AfterOverrides
                  /\ UNCHANGED remote
    /\ SagaStep

ClrOvItstinks ==
    /\ spc = "clrOvItstinks"
    /\ \E ok \in BOOLEAN :
        /\ Sent(SetOverrideReq("clrOvItstinks", itstinks_scene, NoOverride), ok)
        /\ IF ok
             THEN /\ remote' = [remote EXCEPT !.ov[itstinks_scene] = NoOverride]
                  /\ sg' = [sg EXCEPT !.overrides_disabled = TRUE]
             ELSE /\ sg' = [sg EXCEPT !.overrides_disabled = FALSE]
                  /\ UNCHANGED remote
    /\ spc' = AfterOverrides
    /\ SagaStep

\* try_force_cut_transition()
GetTrans ==
    /\ spc = "getTrans"
    /\ \E ok \in BOOLEAN :
        /\ Sent(R("getTrans", "GetCurrentSceneTransition", "", "", NoneInt), ok)
        /\ IF ok
             THEN /\ sg' = [sg EXCEPT !.saved_name = remote.trans[1]]
                  /\ spc' = "getTransDur"
             ELSE /\ sg' = [sg EXCEPT !.saved_trans = <<NoneStr, NoneInt>>]
                  /\ spc' = "setCloneTarget"
    /\ UNCHANGED remote
    /\ SagaStep

GetTransDur ==
    /\ spc = "getTransDur"
    /\ \E ok \in BOOLEAN :
        /\ Sent(R("getTransDur", "GetCurrentSceneTransitionDuration", "", "",
                  NoneInt), ok)
        /\ IF ok
             THEN /\ sg' = [sg EXCEPT !.saved_dur_ms = remote.trans[2]]
                  /\ spc' = "setCut"
             ELSE /\ sg' = [sg EXCEPT !.saved_trans = <<NoneStr, NoneInt>>,
                                      !.saved_name = NoneStr]
                  /\ spc' = "setCloneTarget"
    /\ UNCHANGED remote
    /\ SagaStep

SetCut ==
    /\ spc = "setCut"
    /\ \E ok \in BOOLEAN :
        /\ Sent(R("setCut", "SetCurrentSceneTransition", "", "Cut", NoneInt), ok)
        /\ remote' = IF ok THEN [remote EXCEPT !.trans[1] = "Cut"] ELSE remote
    /\ spc' = "setCutDur"
    /\ UNCHANGED sg
    /\ SagaStep

SetCutDur ==
    /\ spc = "setCutDur"
    /\ \E ok \in BOOLEAN :
        /\ Sent(R("setCutDur", "SetCurrentSceneTransitionDuration", "", "", 0), ok)
        /\ remote' = IF ok THEN [remote EXCEPT !.trans[2] = 0] ELSE remote
    /\ sg' = [sg EXCEPT !.saved_trans = <<sg.saved_name, sg.saved_dur_ms>>,
                        !.saved_name = NoneStr, !.saved_dur_ms = NoneInt]
    /\ spc' = "setCloneTarget"
    /\ SagaStep

\* lines 363-371: "inputSettings": {"clone": clone_target}
ClonePayloadReturnScene == sg.return_scene
ClonePayload == sg.clone_target

SetCloneTarget ==
    /\ spc = "setCloneTarget"
    /\ \E ok \in BOOLEAN :
        /\ Sent(R("setCloneTarget", "SetInputSettings",
                  previousscene_clone_input, ClonePayload, NoneInt), ok)
        /\ IF ok
             THEN /\ remote' = [remote EXCEPT !.clone = ClonePayload]
                  /\ spc' = "getClipItemId"
                  /\ UNCHANGED sg
             ELSE /\ Raise
                  /\ UNCHANGED remote
    /\ SagaStep

\* get_scene_item_id(): the request fails, or answers without a sceneItemId
\* ("missing"), or answers the id
ItemAnswers == {"ok", "failed", "missing"}

GetClipItemId ==
    /\ spc = "getClipItemId"
    /\ \E ans \in ItemAnswers :
        /\ Sent(R("getClipItemId", "GetSceneItemId", itstinks_scene,
                  clip_input, NoneInt), ans # "failed")
        /\ IF ans = "ok"
             THEN /\ sg' = [sg EXCEPT !.clip_scene_item_id = ItemId.clip]
                  /\ spc' = "getPrevItemId"
             ELSE Raise
    /\ UNCHANGED remote
    /\ SagaStep

GetPrevItemId ==
    /\ spc = "getPrevItemId"
    /\ \E ans \in ItemAnswers :
        /\ Sent(R("getPrevItemId", "GetSceneItemId", itstinks_scene,
                  prevscene_scene_source_name, NoneInt), ans # "failed")
        /\ IF ans = "ok"
             THEN /\ sg' = [sg EXCEPT !.prev_scene_item_id = ItemId.prev]
                  /\ spc' = "enablePrevAtStart"
             ELSE Raise
    /\ UNCHANGED remote
    /\ SagaStep

EnablePrevAtStart ==
    /\ spc = "enablePrevAtStart"
    /\ \E ok \in BOOLEAN :
        /\ Sent(SetSceneItemEnabledReq("enablePrevAtStart",
                                       sg.prev_scene_item_id, TRUE), ok)
        /\ IF ok
             THEN /\ remote' = [remote EXCEPT
                                  !.enabled[sg.prev_scene_item_id] = TRUE]
                  /\ spc' = "enableClipAtStart"
                  /\ UNCHANGED sg
             ELSE /\ Raise
                  /\ UNCHANGED remote
    /\ SagaStep

EnableClipAtStart ==
    /\ spc = "enableClipAtStart"
    /\ \E ok \in BOOLEAN :
        /\ Sent(SetSceneItemEnabledReq("enableClipAtStart",
                                       sg.clip_scene_item_id, TRUE), ok)
        /\ IF ok
             THEN /\ remote' = [remote EXCEPT
                                  !.enabled[sg.clip_scene_item_id] = TRUE]
                  /\ spc' = "stopClipPre"
                  /\ UNCHANGED sg
             ELSE /\ Raise
                  /\ UNCHANGED remote
    /\ SagaStep

\* lines 381-388: best effort
StopClipPre ==
    /\ spc = "stopClipPre"
    /\ \E ok \in BOOLEAN :
        Sent(R("stopClipPre", "TriggerMediaInputAction", clip_input,
               "OBS_WEBSOCKET_MEDIA_INPUT_ACTION_STOP", NoneInt), ok)
    /\ spc' = "restartClipPre"
    /\ UNCHANGED <<remote, sg>>
    /\ SagaStep

RestartClipPre ==
    /\ spc = "restartClipPre"
    /\ \E ok \in BOOLEAN :
        /\ Sent(R("restartClipPre", "TriggerMediaInputAction", clip_input,
                  "OBS_WEBSOCKET_MEDIA_INPUT_ACTION_RESTART", NoneInt), ok)
        /\ IF ok THEN spc' = "goItstinks" /\ UNCHANGED sg
                 ELSE Raise
    /\ UNCHANGED remote
    /\ SagaStep

\* effective_hide = max(0.0, hide_delay_s - max(0.0, already_elapsed))
EffectiveHide(hide_delay_s, already_elapsed) ==
    Max(0, hide_delay_s - Max(0, already_elapsed))

\* lines 403-417: the switch, then the call of the hold
GoItstinks ==
    /\ spc = "goItstinks"
    /\ \E ok \in BOOLEAN, already_elapsed \in Latencies :
        /\ Sent(SetProgramSceneReq("goItstinks", itstinks_scene), ok)
        /\ IF ok
             THEN /\ remote' = [remote EXCEPT !.scene = itstinks_scene]
                  /\ hd' = HoldStart(EffectiveHide(args.hide_delay_s,
                                                   already_elapsed),
                                     args.fallback_duration_ms, EndTimeoutMs)
                  /\ spc' = "hold"
                  /\ UNCHANGED sg
             ELSE /\ Raise
                  /\ UNCHANGED <<remote, hd>>
    /\ UNCHANGED <<args, remote0>>
    /\ UNCHANGED <<clientVars, matched>>

\* lines 419-422, once the hold has returned: best effort
DisableClipEnd ==
    /\ spc = "hold"
    /\ hd.pc = "returned"
    /\ \E ok \in BOOLEAN :
        /\ Sent(SetSceneItemEnabledReq("disableClipEnd",
                                       sg.clip_scene_item_id, FALSE), ok)
        /\ remote' = IF ok THEN [remote EXCEPT
                                   !.enabled[sg.clip_scene_item_id] = FALSE]
                           ELSE remote
    /\ hd' = HoldOff
    /\ spc' = "goBack"
    /\ UNCHANGED <<sg, args, remote0>>
    /\ UNCHANGED <<clientVars, matched>>

\* lines 424 and 441: {"sceneName": return_scene}
BackTargetClone == sg.clone_target
BackTarget == sg.return_scene

GoBack ==
    /\ spc = "goBack"
    /\ \E ok \in BOOLEAN :
        /\ Sent(SetProgramSceneReq("goBack", BackTarget), ok)
        /\ IF ok
             THEN /\ remote' = [remote EXCEPT !.scene = BackTarget]
                  /\ spc' = "resetPrevVisible"
                  /\ UNCHANGED sg
             ELSE /\ Raise
                  /\ UNCHANGED remote
    /\ SagaStep

\* lines 427-430: best effort
ResetPrevVisible ==
    /\ spc = "resetPrevVisible"
    /\ \E ok \in BOOLEAN :
        /\ Sent(SetSceneItemEnabledReq("resetPrevVisible",
                                       sg.prev_scene_item_id, TRUE), ok)
        /\ remote' = IF ok THEN [remote EXCEPT
                                   !.enabled[sg.prev_scene_item_id] = TRUE]
                           ELSE remote
    /\ spc' = "getProgramSceneFinally"
    /\ UNCHANGED sg
    /\ SagaStep

(* ---- the `finally` of lines 432-461 ---- *)

\* `if not name and dur_ms is None: return` of restore_transition()
NothingSaved(saved) == (saved[1] = NoneStr \/ saved[1] = "") /\ saved[2] = NoneInt
HasName(saved) == saved[1] # NoneStr /\ saved[1] # ""

\* lines 457-461
AfterTransitionLoop == "rstOvFrom"
AfterTransition ==
    IF sg.prev_scene_item_id # NoneInt THEN "finallyResetPrevVisible"
    ELSE "end"

\* lines 454-455 and restore_transition()
AfterOverrideRestore ==
    IF args.force_cut /\ ~NothingSaved(sg.saved_trans)
      THEN IF HasName(sg.saved_trans) THEN "restoreTrans" ELSE "restoreDur"
      ELSE AfterTransition

\* line 446
AfterEmergency ==
    IF sg.overrides_disabled THEN "rstOvItstinks" ELSE AfterOverrideRestore

\* line 439: `if cur_name == itstinks_scene`
AfterCurrentSceneAlways(cur_name) == "emergencyBack"
AfterCurrentScene(cur_name) ==
    IF cur_name = itstinks_scene THEN "emergencyBack" ELSE AfterEmergency

GetProgramSceneFinally ==
    /\ spc = "getProgramSceneFinally"
    /\ \E ok \in BOOLEAN :
        /\ Sent(R("getProgramSceneFinally", "GetCurrentProgramScene", "", "",
                  NoneInt), ok)
        /\ sg' = [sg EXCEPT !.cur_name = IF ok THEN remote.scene ELSE NoneStr]
        /\ spc' = AfterCurrentScene(IF ok THEN remote.scene ELSE NoneStr)
    /\ UNCHANGED remote
    /\ SagaStep

EmergencyBack ==
    /\ spc = "emergencyBack"
    /\ \E ok \in BOOLEAN :
        /\ Sent(SetProgramSceneReq("emergencyBack", BackTarget), ok)
        /\ remote' = IF ok THEN [remote EXCEPT !.scene = BackTarget]
                           ELSE remote
    /\ spc' = AfterEmergency
    /\ UNCHANGED sg
    /\ SagaStep

\* lines 447-452: both restores in one `try`
RstOvItstinks ==
    /\ spc = "rstOvItstinks"
    /\ \E ok \in BOOLEAN :
        /\ Sent(SetOverrideReq("rstOvItstinks", itstinks_scene,
                               sg.saved_itstinks_ov), ok)
        /\ IF ok
             THEN /\ remote' = [remote EXCEPT
                                  !.ov[itstinks_scene] = sg.saved_itstinks_ov]
                  /\ spc' = "rstOvFrom"
             ELSE /\ spc' = AfterOverrideRestore
                  /\ UNCHANGED remote
    /\ UNCHANGED sg
    /\ SagaStep

RstOvFrom ==
    /\ spc = "rstOvFrom"
    /\ \E ok \in BOOLEAN :
        /\ Sent(SetOverrideReq("rstOvFrom", sg.return_scene, sg.saved_from_ov),
                ok)
        /\ remote' = IF ok THEN [remote EXCEPT
                                   !.ov[sg.return_scene] = sg.saved_from_ov]
                           ELSE remote
    /\ spc' = AfterOverrideRestore
    /\ UNCHANGED sg
    /\ SagaStep

\* restore_transition(): both requests in one `try`
RestoreTrans ==
    /\ spc = "restoreTrans"
    /\ \E ok \in BOOLEAN :
        /\ Sent(R("restoreTrans", "SetCurrentSceneTransition", "",
                  sg.saved_trans[1], NoneInt), ok)
        /\ IF ok
             THEN /\ remote' = [remote EXCEPT !.trans[1] = sg.saved_trans[1]]
                  /\ spc' = IF sg.saved_trans[2] # NoneInt THEN "restoreDur"
                            ELSE AfterTransition
             ELSE /\ spc' = AfterTransition
                  /\ UNCHANGED remote
    /\ UNCHANGED sg
    /\ SagaStep

RestoreDur ==
    /\ spc = "restoreDur"
    /\ \E ok \in BOOLEAN :
        /\ Sent(R("restoreDur", "SetCurrentSceneTransitionDuration", "", "",
                  sg.saved_trans[2]), ok)
        /\ remote' = IF ok THEN [remote EXCEPT !.trans[2] = sg.saved_trans[2]]
                           ELSE remote
    /\ spc' = AfterTransition
    /\ UNCHANGED sg
    /\ SagaStep

FinallyResetPrevVisible ==
    /\ spc = "finallyResetPrevVisible"
    /\ \E ok \in BOOLEAN :
        /\ Sent(SetSceneItemEnabledReq("finallyResetPrevVisible",
                                       sg.prev_scene_item_id, TRUE), ok)
        /\ remote' = IF ok THEN [remote EXCEPT
                                   !.enabled[sg.prev_scene_item_id] = TRUE]
                           ELSE remote
    /\ spc' = "end"
    /\ UNCHANGED sg
    /\ SagaStep

\* the end of the `finally`: the function returns, or the exception of the
\* body goes on to the caller
SagaEnd ==
    /\ spc = "end"
    /\ sg' = [sg EXCEPT !.result = IF sg.raised THEN "raised" ELSE "returned"]
    /\ spc' = "done"
    /\ UNCHANGED <<remote, log, polls>>
    /\ SagaStep

(* ------------------------------------------------------------------ *)
(* Specifications                                                     *)
(* ------------------------------------------------------------------ *)
SagaIdle ==
    /\ args = [force_cut |-> FALSE, hide_delay_s |-> 0,
               fallback_duration_ms |-> 0]
    /\ remote = [scene |-> itstinks_scene,
                 ov |-> [s \in Scenes |-> NoOverride],
                 trans |-> <<"Fade", 300>>,
                 clone |-> "Main",
                 enabled |-> [i \in {ItemId.clip, ItemId.prev} |-> TRUE]]
    /\ remote0 = remote
    /\ spc = "none"
    /\ sg = SagaLocals
    /\ log = <<>>
    /\ polls = {}

Init == InitClient /\ SagaIdle /\ hd = HoldOff /\ matched = NoMatched

Next ==
    \/ \E c \in Callers, o \in {"request", "close"} : Call(c, o)
    \/ \E c \in Callers : OpenSocket(c)
    \/ \E c \in Callers : RecvHello(c)
    \/ \E c \in Callers : SendIdentify(c)
    \/ \E c \in Callers : RecvIdentified(c)
    \/ \E c \in Callers : SendRequest(c)
    \/ \E c \in Callers : RecvResponse(c)
    \/ \E c \in Callers : Close(c)
    \/ \E k \in 1..MaxCalls, f \in ServerFrames : ServerEmit(k, f)
    \/ \E k \in 1..MaxCalls : ServerClose(k)

Spec == Init /\ [][Next]_vars

\* One step of the coroutine that holds the lock
ClientStep ==
    \E c \in Callers :
        \/ OpenSocket(c) \/ RecvHello(c) \/ SendIdentify(c)
        \/ RecvIdentified(c) \/ SendRequest(c) \/ RecvResponse(c)
        \/ Close(c)

\* The event loop resumes a coroutine whose await can complete; and no
\* connection stays open for ever: the peer or the network ends it, so a
\* recv() that is never answered raises in the end.
Fairness ==
    /\ WF_vars(ClientStep)
    /\ \A k \in 1..MaxCalls : WF_vars(ServerClose(k))

SpecFair == Spec /\ Fairness

\* takemycutplease() run once against a remote that accepts or fails each
\* request
InitSagaRun == InitClient /\ InitSaga /\ matched = NoMatched

NextSaga ==
    \/ GetProgramScene
    \/ GetCloneSettings
    \/ GetOvFrom
    \/ GetOvItstinks
    \/ ClrOvFrom
    \/ ClrOvItstinks
    \/ GetTrans
    \/ GetTransDur
    \/ SetCut
    \/ SetCutDur
    \/ SetCloneTarget
    \/ GetClipItemId
    \/ GetPrevItemId
    \/ EnablePrevAtStart
    \/ EnableClipAtStart
    \/ StopClipPre
    \/ RestartClipPre
    \/ GoItstinks
    \/ HoldHide
    \/ HoldPoll
    \/ DisableClipEnd
    \/ GoBack
    \/ ResetPrevVisible
    \/ GetProgramSceneFinally
    \/ EmergencyBack
    \/ RstOvItstinks
    \/ RstOvFrom
    \/ RestoreTrans
    \/ RestoreDur
    \/ FinallyResetPrevVisible
    \/ SagaEnd

SpecSaga == InitSagaRun /\ [][NextSaga]_vars

\* The status handling of request() applied to one matched response
InitStatus == InitClient /\ SagaIdle /\ hd = HoldOff /\ InitMatched

NextStatus == Status

SpecStatus == InitStatus /\ [][NextStatus]_vars

\* hold_until_clip_done_or_fallback() called on its own, every await of
\* the loop (the hide request, the status query, the sleep) completing
HoldHideDelays == {0, 100, 200, 300}
HoldFallbacks == {0, 50}
HoldEndTimeouts == {0, 250, EndTimeoutMs}

InitHold ==
    /\ InitClient
    /\ SagaIdle
    /\ hd \in {HoldStart(h, f, e) : h \in HoldHideDelays, f \in HoldFallbacks,
                                    e \in HoldEndTimeouts}
    /\ matched = NoMatched

NextHold ==
    \/ HoldHide
    \/ HoldPoll

SpecHold == InitHold /\ [][NextHold]_vars

SpecHoldFair == SpecHold /\ WF_vars(NextHold)

(* ------------------------------------------------------------------ *)
(* Claims about the ObsClient                                         *)
(* ------------------------------------------------------------------ *)

\* Positions inside `async with self._req_lock`
CritPcs == {"open", "hello", "identify", "ack", "send", "recv", "closing"}

C1_Completion ==
    lastDone.how \in {"returned", "request_error"} =>
        /\ lastDone.onOp = 7
        /\ lastDone.onId = lastDone.rid
        /\ \A d \in Callers : d # lastDone.caller => rid[d] # lastDone.onId

C1_Discard ==
    \A c \in Callers :
        ( /\ pc[c] = "recv"
          /\ CanRecv(ws)
          /\ Head(conns[ws].inbox) # Malformed
          /\ ~(Head(conns[ws].inbox).op = 7
                /\ Head(conns[ws].inbox).requestId = rid[c])
          /\ ws' = ws
          /\ conns'[ws].inbox = Tail(conns[ws].inbox) )
        => pc'[c] = "recv" /\ lastDone' = lastDone

\* C1: a request() call that returns or raises a request failure does so on
\* an op=7 frame carrying the request id the call itself sent, never on a
\* response to another caller's request; a frame with another op or another
\* request id (any JSON object that is not the call's own response) is taken
\* off the connection and the call stays in its receive loop.
C1_OwnResponse == []C1_Completion /\ [][C1_Discard]_vars

\* The second call returned on its own response while another call is in
\* flight behind it.
C1_Witness ==
    /\ lastDone.how = "returned"
    /\ lastDone.caller = 2
    /\ lastDone.onId = "a-2"
    /\ \E d \in Callers : pc[d] = "recv"

\* C2: at most one caller is inside the critical section; at most one request
\* is in flight on the connection (a request is sent only when the one before
\* it has been answered or has failed); a call in its receive loop has sent
\* its request.
C2_Serialized ==
    /\ Cardinality({c \in Callers : pc[c] \in CritPcs}) <= 1
    /\ Cardinality(inflight) <= 1
    /\ \A c \in Callers : pc[c] \in CritPcs => lockHolder = c
    /\ \A c \in Callers : pc[c] = "recv" => rid[c] # "" /\ inflight = {rid[c]}

\* One call is in its receive loop while two others queue for the lock.
C2_Witness ==
    /\ \E c \in Callers : pc[c] = "recv"
    /\ Len(lockWaiters) = 2

\* C11: on the matched response request() returns the response body when
\* requestStatus.result is true; on any other result (false, missing, null,
\* a number, a string) it raises an error whose text holds the operation
\* name, the remote code and the remote comment as they were sent, and no
\* body is returned.
C11_StatusDecides ==
    matched.pc = "done" =>
        IF matched.d.result = JBool(TRUE)
          THEN /\ matched.how = "returned"
               /\ matched.body = matched.d
               /\ matched.error = <<>>
          ELSE /\ matched.how = "raised"
               /\ matched.body = NoBody
               /\ Len(matched.error) = 7
               /\ matched.error[2] = matched.request_type
               /\ matched.d.code.k = "int" =>
                     matched.error[4] = ToString(matched.d.code.n)
               /\ matched.d.comment.k = "str" =>
                     matched.error[6] = matched.d.comment.s

\* A response whose result is the number 1, with a code and a comment, has
\* been refused.
C11_Witness ==
    /\ matched.pc = "done"
    /\ matched.d.result = JInt(1)
    /\ matched.d.code = JInt(600)
    /\ matched.d.comment = JStr("No source")
    /\ matched.how = "raised"

\* The handshake steps done on the connection each caller of connect() holds
C12_SessionIdentified ==
    /\ ws # NoConn => conns[ws].hs = 3
    /\ cws # NoConn => cws # ws /\ conns[cws].hs < 3
    /\ \A c \in Callers :
          /\ pc[c] \in {"send", "recv"} => ws # NoConn /\ conns[ws].hs = 3
          /\ pc[c] = "hello" => conns[cws].hs = 0
          /\ pc[c] = "identify" => conns[cws].hs = 1
          /\ pc[c] = "ack" => conns[cws].hs = 2

C12_Steps ==
    /\ \A k \in 1..Len(conns) :
          /\ conns'[k].hs \in {conns[k].hs, conns[k].hs + 1}
          /\ (conns[k].hs = 2 /\ conns'[k].hs = 3) =>
                /\ Head(conns[k].inbox).op = 2
                /\ ws # k /\ ws' = k
          /\ ws' = k /\ ws # k => conns[k].hs = 2 /\ conns'[k].hs = 3
    /\ inflight' \ inflight # {} =>
          ws' = ws /\ ws # NoConn /\ conns[ws].hs = 3
    /\ \A c \in Callers :
          /\ (pc[c] \in {"open", "hello", "identify", "ack"}
                /\ pc'[c] = "done") =>
                ws' = ws /\ (ws = NoConn \/ IsClosed(ws))
          /\ (pc[c] = "ack" /\ CanRecv(cws)
                /\ Head(conns[cws].inbox) # Malformed
                /\ Head(conns[cws].inbox).op # 2
                /\ conns'[cws].inbox = Tail(conns[cws].inbox)) =>
                pc'[c] = "ack" /\ ws' = ws

\* C12: an op=6 frame is sent only on a connection on which the first frame
\* was received as the hello, then the identify sent, then an op=2 frame
\* received, other frames in between being discarded; self.ws is set to a
\* connection only at that op=2 frame, so a connect() that fails midway
\* leaves self.ws as it was, None or a closed connection.
C12_HandshakeFirst == []C12_SessionIdentified /\ [][C12_Steps]_vars

\* A request is in flight on an identified connection after an earlier
\* connect() failed midway on another.
C12_Witness ==
    /\ \E c \in Callers : pc[c] = "recv"
    /\ \E k \in 1..Len(conns) : k # ws /\ conns[k].hs \in {1, 2}

\* close() runs with the lock held and no request between its send and its
\* receive
C15_CloseInLock ==
    \A c \in Callers :
        pc[c] = "closing" =>
            /\ lockHolder = c
            /\ inflight = {}
            /\ \A d \in Callers \ {c} : pc[d] \notin CritPcs

C15_CloseStep ==
    \A c \in Callers :
        (pc[c] = "closing" /\ pc'[c] = "done") =>
            /\ ws' = NoConn
            /\ \A k \in 1..Len(conns) :
                  conns'[k].st = IF k = ws THEN "closed" ELSE conns[k].st
            /\ ws = NoConn =>
                  /\ conns' = conns
                  /\ UNCHANGED <<ws, req_seq, issued, inflight, cws>>

\* C15: close() runs inside the critical section of request(), never between
\* a request's send and its receive; when it ends self.ws is None and the
\* connection it held is closed; a close() that finds self.ws None closes
\* nothing and leaves the connections, self.ws and the request counter as
\* they were.
C15_CloseIdempotent == []C15_CloseInLock /\ [][C15_CloseStep]_vars

\* A close() has found no session on a client that had one: an earlier
\* close() took it.
C15_Witness ==
    /\ lastDone.how = "noop"
    /\ ws = NoConn
    /\ \E k \in 1..Len(conns) : conns[k].hs = 3

\* The connections of the client that are open
OpenConns == {k \in 1..Len(conns) : conns[k].st = "open"}

\* C18, as claimed: whatever the sequence of requests, failed handshakes,
\* remote closures, reconnects and closes, the client has at most one open
\* connection.
C18_AtMostOneOpen == Cardinality(OpenConns) <= 1

\* The ids generated so far are as many as the counter says, each the
\* prefix ("req" for the default "1") followed by the counter's value then
C20_Distinct ==
    /\ Cardinality(issued) = req_seq
    /\ inflight \subseteq issued
    /\ \A r \in issued :
          \E n \in 1..req_seq, q \in {"req", "a"} : r = q \o "-" \o ToString(n)
    /\ \A c, d \in Callers : (c # d /\ rid[c] # "") => rid[c] # rid[d]

C20_Fresh ==
    /\ req_seq' \in {req_seq, req_seq + 1}
    /\ issued \subseteq issued'
    /\ req_seq' = req_seq + 1 =>
          /\ Cardinality(issued' \ issued) = 1
          /\ \A c \in Callers : rid'[c] # rid[c] /\ rid'[c] # "" =>
                rid'[c] \notin issued
    /\ \A c \in Callers :
          (pc[c] = "recv" /\ pc'[c] = "done"
            /\ lastDone'.how \in {"returned", "request_error"}) =>
              /\ lastDone'.onId = rid[c]
              /\ lastDone'.onId \in inflight

\* C20: every request id the client generates differs from all it generated
\* before: the counter grows by one per id and is part of the id, the default
\* prefix "1" becoming "req"; so no two requests share an id and a response
\* to an earlier request is never taken for the response to a later one.
C20_UniqueIds == []C20_Distinct /\ [][C20_Fresh]_vars

\* A call waits for its response while the response to an earlier request,
\* no longer awaited, is the next frame on the connection.
C20_Witness ==
    /\ req_seq >= 2
    /\ \E c \in Callers : pc[c] = "recv"
    /\ CanRecv(ws)
    /\ Head(conns[ws].inbox).op = 7
    /\ Head(conns[ws].inbox).requestId \in issued \ inflight

\* The ways a request() ends by an exception
Failures == {"request_error", "conn_error", "decode_error"}

\* A request() that ends by an exception leaves the lock: to the first
\* queued caller, who is then inside the block, or to nobody.
C21_Release ==
    \A c \in Callers :
        (pc[c] \in CritPcs /\ pc'[c] = "done" /\ lastDone'.how \in Failures) =>
            /\ lockHolder = c
            /\ lockHolder' # c
            /\ IF lockWaiters = <<>>
                 THEN lockHolder' = NoCaller /\ lockWaiters' = <<>>
                 ELSE /\ lockHolder' = Head(lockWaiters)
                      /\ lockWaiters' = Tail(lockWaiters)
                      /\ pc[Head(lockWaiters)] = "wait"
                      /\ pc'[Head(lockWaiters)] \in CritPcs

\* A request() that gets the lock starts with connect() exactly when there
\* is no session or its connection is closed; connect() works on a
\* connection of its own, just opened, through hello, identify and
\* identified in this order; and the op=6 frame goes out on an open
\* connection on which all three are done.
C21_Reconnect ==
    /\ \A c \in Callers :
          /\ (pc[c] \in {"idle", "wait"} /\ pc'[c] \in CritPcs
                    /\ op'[c] = "request") =>
                /\ pc'[c] \in {"open", "send"}
                /\ pc'[c] = "open" <=>
                      (ws' = NoConn \/ conns'[ws'].st = "closed")
          /\ pc[c] = "open" => pc'[c] \in {"open", "hello", "done"}
          /\ (pc[c] = "open" /\ pc'[c] = "hello") =>
                /\ cws' = Len(conns) + 1
                /\ conns' = Append(conns, NewConn)
          /\ pc[c] = "hello" => pc'[c] \in {"hello", "identify", "done"}
          /\ pc[c] = "identify" => pc'[c] \in {"identify", "ack", "done"}
          /\ pc[c] = "ack" => pc'[c] \in {"ack", "send", "done"}
          /\ (pc[c] = "ack" /\ pc'[c] = "send") => ws' = cws /\ ws' # ws
          /\ (pc[c] = "send" /\ pc'[c] = "recv") =>
                /\ inflight' = {rid'[c]}
                /\ ws' = ws
                /\ conns[ws].st = "open"
                /\ conns[ws].hs = 3

\* Every caller queued for the lock gets it.
C21_Enters == \A c \in Callers : (pc[c] = "wait") ~> (lockHolder = c)

LogIdx == 1..Len(log)

\* The same request, whatever its outcome
Same(e, r) ==
    /\ e.req = r.req /\ e.type = r.type
    /\ e.a = r.a /\ e.b = r.b /\ e.n = r.n

Has(r) == \E i \in LogIdx : Same(log[i], r)
HasReq(req) == \E i \in LogIdx : log[i].req = req
Accepted(req) == \E i \in LogIdx : log[i].req = req /\ log[i].ok
Ended == spc = "done"

\* The switch to the overlay scene was accepted
Switched == Accepted("goItstinks")

\* ... and every remote call after it failed
AllFailedAfterSwitch ==
    /\ TRUE \notin polls
    /\ \A i, j \in LogIdx :
          log[i].req = "goItstinks" /\ j > i => ~log[j].ok

\* C3, as claimed: when the switch to the overlay scene succeeds and every
\* remote call after it fails, the finally block issues the emergency return
\* to the original scene, the restore of both override snapshots (the
\* overrides having been cleared) and the reset of the background item.
C3_UnwindIssuesAllFour ==
    (Ended /\ Switched /\ AllFailedAfterSwitch /\ sg.overrides_disabled) =>
        /\ Has(SetProgramSceneReq("emergencyBack", sg.return_scene))
        /\ Has(SetOverrideReq("rstOvItstinks", itstinks_scene,
                              sg.saved_itstinks_ov))
        /\ Has(SetOverrideReq("rstOvFrom", sg.return_scene, sg.saved_from_ov))
        /\ Has(SetSceneItemEnabledReq("finallyResetPrevVisible",
                                      ItemId.prev, TRUE))

\* The restoration requests that apply once the finally block has run
RanFinally == Ended /\ HasReq("getProgramSceneFinally")
Applicable ==
    (IF sg.cur_name = itstinks_scene THEN {"emergencyBack"} ELSE {})
    \cup (IF sg.overrides_disabled THEN {"rstOvItstinks", "rstOvFrom"} ELSE {})
    \cup (IF args.force_cut /\ HasName(sg.saved_trans)
            THEN {"restoreTrans"} ELSE {})
    \cup (IF args.force_cut /\ sg.saved_trans[2] # NoneInt
            THEN {"restoreDur"} ELSE {})
    \cup (IF sg.prev_scene_item_id # NoneInt
            THEN {"finallyResetPrevVisible"} ELSE {})

\* C4, as claimed: in the finally block every restoration request that
\* applies is issued, whichever of the others failed.
C4_RestoresIndependent ==
    RanFinally => \A req \in Applicable : HasReq(req)

\* The snapshot the saga holds of a scene's override
Snapshot(scene) ==
    IF scene = itstinks_scene THEN sg.saved_itstinks_ov ELSE sg.saved_from_ov

IsClear(e) ==
    /\ e.type = "SetSceneSceneTransitionOverride"
    /\ e.req \in {"clrOvFrom", "clrOvItstinks"}

IsRestoreOf(e, scene) ==
    /\ e.type = "SetSceneSceneTransitionOverride"
    /\ e.a = scene
    /\ <<e.b, e.n>> = Snapshot(scene)

\* C5, as claimed: when takemycutplease() has ended, every scene whose
\* override was cleared by an accepted request has had a set-override request
\* carrying its snapshot issued afterwards.
C5_ClearedIsRestored ==
    Ended =>
        \A i \in LogIdx :
            IsClear(log[i]) /\ log[i].ok =>
                \E j \in LogIdx : j > i /\ IsRestoreOf(log[j], log[i].a)

\* C6, as claimed: when the run has ended the clone input's clone target is
\* what it was before the run.
C6_CloneTargetRestored == Ended => remote.clone = remote0.clone

\* C6, amended: the saga sets the clone target and never undoes it: when the
\* run has ended the clone target is the saga's clone_target if the
\* setCloneTarget request was accepted and what it was before the run
\* otherwise, and setCloneTarget is the only SetInputSettings request.
C6_CloneTargetKept ==
    /\ \A i \in LogIdx :
          log[i].type = "SetInputSettings" => log[i].req = "setCloneTarget"
    /\ Ended =>
          remote.clone = IF Accepted("setCloneTarget") THEN sg.clone_target
                         ELSE remote0.clone

\* A run has ended, through its finally block, with the clone target changed
\* from what it was before the run to the scene the run started on.
C6_Witness ==
    /\ RanFinally
    /\ Accepted("setCloneTarget")
    /\ remote.clone = sg.return_scene
    /\ remote.clone # remote0.clone

\* C7: when the remote reports the overlay scene as the current program
\* scene, the only request ever issued is the one GetCurrentProgramScene
\* read, the remote is left as it was, and the run returns without error.
C7_GuardNoMutation ==
    remote0.scene = itstinks_scene =>
        /\ Len(log) <= 1
        /\ \A i \in LogIdx : log[i].req = "getProgramScene"
                               /\ log[i].type = "GetCurrentProgramScene"
        /\ remote = remote0
        /\ (Ended /\ Accepted("getProgramScene")) =>
              sg.result = "returned" /\ ~sg.raised

C7_Witness ==
    /\ Ended
    /\ remote0.scene = itstinks_scene
    /\ Accepted("getProgramScene")
    /\ sg.result = "returned"

\* The remote accepted every call and answered both item lookups
AllAccepted ==
    /\ \A i \in LogIdx : log[i].ok
    /\ FALSE \notin polls
    /\ sg.clip_scene_item_id # NoneInt
    /\ sg.prev_scene_item_id # NoneInt

SwitchesTo(scene) ==
    {i \in LogIdx : log[i].type = "SetCurrentProgramScene" /\ log[i].a = scene}

HidesOfBackground ==
    {i \in LogIdx : Same(log[i], SetSceneItemEnabledReq(log[i].req,
                                                        ItemId.prev, FALSE))}

EndToEnd(hides) ==
    /\ Cardinality(SwitchesTo(itstinks_scene)) = 1
    /\ Cardinality(SwitchesTo(sg.return_scene)) = 1
    /\ ~HasReq("emergencyBack")
    /\ Cardinality(HidesOfBackground) \in hides
    /\ remote.enabled[ItemId.prev]
    /\ sg.result = "returned"

\* C8, as claimed: a run from another scene than the overlay scene, every
\* call accepted, issues one switch to the overlay scene, one switch back, no
\* emergency return and exactly one hide of the background item, and leaves
\* the background item visible.
C8_EndToEndOneHide ==
    (Ended /\ remote0.scene # itstinks_scene /\ AllAccepted) => EndToEnd({1})

\* C8, amended: ... exactly one hide of the background item when hide_delay_s
\* does not exceed the fallback floor (fallback_duration_ms/1000 + 0.15 s),
\* and at most one otherwise.
C8_EndToEnd ==
    (Ended /\ remote0.scene # itstinks_scene /\ AllAccepted) =>
        EndToEnd(IF args.hide_delay_s <= args.fallback_duration_ms + PadMs
                   THEN {1} ELSE {0, 1})

\* An all-accepted run has ended with its one hide issued.
C8_Witness ==
    /\ Ended
    /\ remote0.scene = "Main"
    /\ AllAccepted
    /\ Accepted("hidePrev")
    /\ Accepted("goBack")

\* What the wrapper's clone setting resolves to in a run from the wrapper
\* scene: the clone input's target when it was read and names another scene,
\* the wrapper itself otherwise
WrapperResolved ==
    IF Accepted("getCloneSettings") /\ ResolvedClone(remote0.clone)
      THEN remote0.clone ELSE WrapperScene

WrapperTargets(back) ==
    remote0.scene = WrapperScene =>
        \A i \in LogIdx :
            /\ log[i].req = "setCloneTarget" => log[i].b = WrapperResolved
            /\ log[i].req \in {"goBack", "emergencyBack"} => log[i].a = back

\* C13, as claimed: in a run from the wrapper scene the resolved target (the
\* wrapper name when resolution fails or yields the wrapper) is both what the
\* clone input is set to and the scene of goBack and emergencyBack.
C13_ResolvedForBoth == WrapperTargets(WrapperResolved)

\* C13, amended: in a run from the wrapper scene the resolved target is what
\* the clone input is set to; goBack and emergencyBack switch to the wrapper
\* scene itself, resolved or not.
C13_ResolvedForClone == WrapperTargets(WrapperScene)

\* A run from the wrapper scene, its clone resolved to another scene, has set
\* the clone input and switched back.
C13_Witness ==
    /\ Ended
    /\ remote0.scene = WrapperScene
    /\ WrapperResolved # WrapperScene
    /\ Accepted("setCloneTarget")
    /\ Accepted("goBack")
    /\ remote.scene = WrapperScene

\* The steps of the body whose failure must reach the caller; the others
\* (stopClipPre, the requests of the hold, disableClipEnd, resetPrevVisible)
\* are best effort
RequiredSteps ==
    {"setCloneTarget", "getClipItemId", "getPrevItemId", "enablePrevAtStart",
     "enableClipAtStart", "restartClipPre", "goItstinks", "goBack"}

\* The request at position i of the log is a step that failed: the remote
\* refused it, or an item lookup was answered without an item id.
StepFailed(i) ==
    \/ ~log[i].ok
    \/ log[i].req = "getClipItemId" /\ sg.clip_scene_item_id = NoneInt
    \/ log[i].req = "getPrevItemId" /\ sg.prev_scene_item_id = NoneInt

RequiredFailedAt ==
    {i \in LogIdx : log[i].req \in RequiredSteps /\ StepFailed(i)}

\* C14: when a required step of the body has failed, the next request is
\* the first of the finally block, and takemycutplease() raises, the raise
\* reaching the caller only when the finally block is over; a run whose
\* required steps all succeeded returns, whichever best-effort steps failed.
C14_RequiredPropagates ==
    /\ \A i \in RequiredFailedAt :
          /\ i < Len(log) => log[i + 1].req = "getProgramSceneFinally"
          /\ Ended => sg.result = "raised" /\ i < Len(log)
    /\ (sg.result = "raised" /\ Accepted("getProgramScene")) =>
          /\ Ended
          /\ RequiredFailedAt # {}
          /\ HasReq("getProgramSceneFinally")
    /\ (Ended /\ Accepted("getProgramScene") /\ RequiredFailedAt = {}) =>
          sg.result = "returned"

\* A run has raised after its finally block: the best-effort hiding of the
\* clip item failed without ending the body, then the switch back failed.
C14_Witness ==
    /\ Ended
    /\ sg.result = "raised"
    /\ HasReq("disableClipEnd") /\ ~Accepted("disableClipEnd")
    /\ HasReq("goBack") /\ ~Accepted("goBack")
    /\ HasReq("finallyResetPrevVisible")

\* The restoration requests of the finally block, in the order of the code
UnwindOrder ==
    <<"emergencyBack", "rstOvItstinks", "rstOvFrom", "restoreTrans",
      "restoreDur", "finallyResetPrevVisible">>

UnwindRank(req) ==
    CASE req = "emergencyBack" -> 1
      [] req = "rstOvItstinks" -> 2
      [] req = "rstOvFrom" -> 3
      [] req = "restoreTrans" -> 4
      [] req = "restoreDur" -> 5
      [] req = "finallyResetPrevVisible" -> 6
      [] OTHER -> 0

IsUnwind(i) == UnwindRank(log[i].req) > 0

\* C16: the restoration requests of the finally block come after its read
\* of the current scene, nothing else between or after them, in the order
\* emergencyBack, rstOvItstinks, rstOvFrom, restoreTrans, restoreDur,
\* finallyResetPrevVisible, each at most once; emergencyBack is issued only
\* when that read reported the overlay scene.
C16_UnwindOrder ==
    /\ \A i \in LogIdx :
          IsUnwind(i) =>
              /\ i > 1
              /\ \/ log[i - 1].req = "getProgramSceneFinally"
                 \/ /\ IsUnwind(i - 1)
                    /\ UnwindRank(log[i - 1].req) < UnwindRank(log[i].req)
              /\ log[i].req = "emergencyBack" =>
                    /\ log[i - 1].req = "getProgramSceneFinally"
                    /\ log[i - 1].ok
                    /\ sg.cur_name = itstinks_scene
    /\ \A i \in LogIdx :
          (log[i].req = "getProgramSceneFinally" /\ i < Len(log)) =>
              IsUnwind(i + 1)

\* A run with force_cut has ended with all six restoration requests issued.
C16_Witness ==
    /\ Ended
    /\ \A n \in 1..Len(UnwindOrder) : HasReq(UnwindOrder[n])

\* Request req was accepted before position i of the log
AcceptedBefore(req, i) ==
    \E j \in LogIdx : j < i /\ log[j].req = req /\ log[j].ok

\* C17: a request clearing a scene's transition override is issued only
\* after both override snapshots were read, a request forcing the global
\* transition to Cut or its duration to 0 only after the current transition
\* and its duration were read, and the global transition is read and forced
\* only with force_cut.
C17_SnapshotFirst ==
    \A i \in LogIdx :
        /\ IsClear(log[i]) =>
              /\ AcceptedBefore("getOvFrom", i)
              /\ AcceptedBefore("getOvItstinks", i)
              /\ <<log[i].b, log[i].n>> = NoOverride
        /\ log[i].req \in {"setCut", "setCutDur"} =>
              /\ AcceptedBefore("getTrans", i)
              /\ AcceptedBefore("getTransDur", i)
        /\ log[i].req \in {"getTrans", "getTransDur", "setCut", "setCutDur"} =>
              args.force_cut
        /\ (log[i].type \in {"SetCurrentSceneTransition",
                              "SetCurrentSceneTransitionDuration"}
              /\ log[i].req \notin {"restoreTrans", "restoreDur"}) =>
              log[i].req \in {"setCut", "setCutDur"}

\* Both overrides were cleared and the transition forced to Cut, after the
\* four snapshots.
C17_Witness ==
    /\ Accepted("clrOvFrom") /\ Accepted("clrOvItstinks")
    /\ Accepted("setCut") /\ Accepted("setCutDur")
    /\ remote.trans = <<"Cut", 0>>
    /\ sg.saved_from_ov = remote0.ov[remote0.scene]

(* ------------------------------------------------------------------ *)
(* Claims about hold_until_clip_done_or_fallback()                    *)
(* ------------------------------------------------------------------ *)

\* C9: the hold never returns at a tick whose elapsed time is below the
\* fallback floor, whatever the status answers were.
C9_FloorHolds ==
    hd.pc = "returned" =>
        /\ hd.retAt = hd.elapsed
        /\ hd.retAt >= hd.fallback_duration_ms + PadMs

\* The remote signalled the end of a clip seen active, below the floor, and
\* the hold went on to its next tick.
C9_Witness ==
    /\ hd.pc = "top"
    /\ hd.seen_active
    /\ hd.ended_by_obs
    /\ hd.elapsed > 0
    /\ hd.elapsed < hd.fallback_duration_ms + PadMs

\* A tick of the hold returns exactly when its elapsed time has reached the
\* fallback floor, hence at the latest at the first tick at or past the
\* ceiling; no tick raises.
C19_Tick ==
    hd.pc \in {"top", "poll"} =>
        /\ hd'.pc \in {"top", "poll", "returned"}
        /\ hd'.pc = "returned" <=> (hd.pc = "poll" \/ ~HideDue)
                                     /\ hd.elapsed >= fallback_s
        /\ hd.elapsed >= max_s => hd'.pc \in {"poll", "returned"}
        /\ hd'.pc = "returned" => hd'.retAt = hd.elapsed

\* C19: with every request of the hold completing, by an answer or by an
\* error, the hold returns; it returns at the first tick whose elapsed time
\* has reached the fallback floor, which no tick at or past
\* max(fallback floor, end_timeout_s) outlasts; a failed status query or a
\* failed hide request neither raises nor ends the loop early.
C19_HoldTerminates == <>(hd.pc = "returned") /\ [][C19_Tick]_vars

\* The hold has returned at the floor after a failed hide request and with
\* every status query failed.
C19_Witness ==
    /\ hd.pc = "returned"
    /\ polls = {FALSE}
    /\ HasReq("hidePrev") /\ ~Accepted("hidePrev")
    /\ hd.retAt >= fallback_s
    /\ hd.retAt > 0

C10_HideOnce ==
    /\ hd.hides <= 1
    /\ Cardinality({i \in LogIdx : log[i].req = "hidePrev"}) = hd.hides
    /\ hd.hidden <=> hd.hides = 1
    /\ hd.hides = 1 => hd.hideAt >= hd.hide_delay_s

\* C10: during one hold the hide request is issued at most once, at a tick
\* whose elapsed time has reached hide_delay_s; hidden goes from false to
\* true with it, also when the request fails, and never back.
C10_HideAtMostOnce == []C10_HideOnce /\ [][hd.hidden => hd'.hidden]_vars

\* The hide request failed and the hold ran later ticks without retrying it.
C10_Witness ==
    /\ hd.pc = "returned"
    /\ hd.hides = 1
    /\ HasReq("hidePrev") /\ ~Accepted("hidePrev")
    /\ hd.hideAt < hd.retAt

====
